---------------------------- MODULE Spec2Model ----------------------------
(***************************************************************************)
(* Model of render_node_locations.py: a script run inside a 3D host that   *)
(* renders the active camera from every object of the collection           *)
(* "FPV_nodes" at every heading of the ROTATION_ANGLES table.              *)
(*                                                                         *)
(* Text is a sequence of one-character strings, so that string formatting  *)
(* and path joining are computed rather than assumed.  An angle in radians *)
(* is an exact rational multiple of pi, [num, den] standing for            *)
(* num * pi / den.  Paths follow pathlib's POSIX flavour.                  *)
(***************************************************************************)
EXTENDS Integers, Sequences, FiniteSets, TLC

VARIABLES
    collectionExists,   \* "FPV_nodes" in bpy.data.collections
    all_objects,        \* bpy.data.collections["FPV_nodes"].all_objects, in host order
    hasCamera,          \* SCENE.camera is not None
    table,              \* the ROTATION_ANGLES dictionary as edited by the user
    filepath,           \* SCENE.render.filepath
    cam_loc,            \* CAMERA.location
    cam_rot,            \* CAMERA.rotation_euler
    disk,               \* the set of image files on disk
    OUTPUT_DIR,         \* module constant captured at line 33
    nodes,              \* the list returned by get_node_locations()
    i,                  \* position of the outer loop (for d in nodes)
    k,                  \* position of the inner loop (for k, v in ROTATION_ANGLES.items())
    pc,                 \* the statement the script executes next
    run,                \* number of the current execution of the script
    abortAt,            \* where the current execution raised, "" when it did not
    renders,            \* history: the render calls of the current execution
    locWrites,          \* history: writes to CAMERA.location by the current execution
    rotWrites,          \* history: writes to CAMERA.rotation_euler by the current execution
    pathWrites,         \* history: writes to SCENE.render.filepath by the current execution
    start,              \* history: host state when the current execution began
    prev                \* history: outcome of the previous execution

vars == <<collectionExists, all_objects, hasCamera, table, filepath, cam_loc,
          cam_rot, disk, OUTPUT_DIR, nodes, i, k, pc, run, abortAt, renders,
          locWrites, rotWrites, pathWrites, start, prev>>

scene == <<collectionExists, all_objects, hasCamera, table>>
history == <<start, prev, run>>

-----------------------------------------------------------------------------
(* Bounds of the model *)

\* longest marker collection
MaxMarkers == 2
\* most render calls one execution may issue: |markers| * |table|
MaxRenders == 8
\* executions of the script in one host session
MaxRuns == 2

-----------------------------------------------------------------------------
(* Text *)

Digit(d) == <<"0", "1", "2", "3", "4", "5", "6", "7", "8", "9">>[d + 1]

RECURSIVE NatStr(_)
NatStr(n) == IF n < 10 THEN <<Digit(n)>>
             ELSE NatStr(n \div 10) \o <<Digit(n % 10)>>

\* str(k) / f"{k}" for an int
IntStr(n) == IF n < 0 THEN <<"-">> \o NatStr(-n) ELSE NatStr(n)


\* a variant of the file name with a single underscore before "angle"
output_file_OneUnderscore(node_name, heading) ==
    node_name \o <<"_", "a", "n", "g", "l", "e", "_">> \o IntStr(heading)
              \o <<".", "p", "n", "g">>

\* f"{node_name}__angle_{k}.png"
output_file(node_name, heading) ==
    node_name \o <<"_", "_", "a", "n", "g", "l", "e", "_">> \o IntStr(heading)
              \o <<".", "p", "n", "g">>

-----------------------------------------------------------------------------
(* pathlib, POSIX flavour *)

RECURSIVE LeadingSlashes(_)
LeadingSlashes(s) ==
    IF s # <<>> /\ Head(s) = "/" THEN 1 + LeadingSlashes(Tail(s)) ELSE 0

\* the root of a path: "//" is kept, any other run of slashes is "/"
PathRoot(s) ==
    LET n == LeadingSlashes(s)
    IN  IF n = 0 THEN <<>> ELSE IF n = 2 THEN <<"/", "/">> ELSE <<"/">>

\* the components of a path: split at "/", empty and "." components dropped
RECURSIVE PathParts(_, _, _)
PathParts(s, cur, acc) ==
    LET keep == IF cur = <<>> \/ cur = <<".">> THEN acc ELSE Append(acc, cur)
    IN  IF s = <<>> THEN keep
        ELSE IF Head(s) = "/" THEN PathParts(Tail(s), <<>>, keep)
        ELSE PathParts(Tail(s), Append(cur, Head(s)), acc)

RECURSIVE JoinParts(_)
JoinParts(parts) ==
    IF parts = <<>> THEN <<>>
    ELSE IF Len(parts) = 1 THEN parts[1]
    ELSE parts[1] \o <<"/">> \o JoinParts(Tail(parts))

\* str(Path(a, b))
str_Path(a, b) ==
    LET raw   == IF b # <<>> /\ Head(b) = "/" THEN b
                 ELSE IF a = <<>> THEN b
                 ELSE a \o <<"/">> \o b
        root  == PathRoot(raw)
        parts == PathParts(raw, <<>>, <<>>)
    IN  IF root = <<>> /\ parts = <<>> THEN <<".">>
        ELSE root \o JoinParts(parts)

-----------------------------------------------------------------------------
(* Angles *)

RECURSIVE GCD(_, _)
GCD(a, b) == IF b = 0 THEN a ELSE GCD(b, a % b)

Abs(x) == IF x < 0 THEN -x ELSE x

\* math.radians(deg) = deg * pi / 180, as the reduced fraction of pi
radians(deg) ==
    LET g == GCD(Abs(deg), 180)
    IN  [num |-> deg \div g, den |-> 180 \div g]


\* a variant of the table whose yaw is not negated
ROTATION_ANGLES_PositiveYaw ==
    << <<0,   <<radians(90), radians(0), radians(0)>> >>,
       <<45,  <<radians(90), radians(0), radians(45)>> >>,
       <<90,  <<radians(90), radians(0), radians(90)>> >>,
       <<135, <<radians(90), radians(0), radians(135)>> >>,
       <<180, <<radians(90), radians(0), radians(180)>> >>,
       <<225, <<radians(90), radians(0), radians(225)>> >>,
       <<270, <<radians(90), radians(0), radians(270)>> >>,
       <<315, <<radians(90), radians(0), radians(315)>> >> >>

\* the table of the source, lines 41-50: heading -> [X, Y, Z] rotation
ROTATION_ANGLES ==
    << <<0,   <<radians(90), radians(0), radians(0)>> >>,
       <<45,  <<radians(90), radians(0), radians(-45)>> >>,
       <<90,  <<radians(90), radians(0), radians(-90)>> >>,
       <<135, <<radians(90), radians(0), radians(-135)>> >>,
       <<180, <<radians(90), radians(0), radians(-180)>> >>,
       <<225, <<radians(90), radians(0), radians(-225)>> >>,
       <<270, <<radians(90), radians(0), radians(-270)>> >>,
       <<315, <<radians(90), radians(0), radians(-315)>> >> >>

\* the tables a user may leave in the source (docstring, lines 14-16)
Tables ==
    { ROTATION_ANGLES,
      << <<0,  <<radians(90), radians(0), radians(0)>> >>,
         <<90, <<radians(90), radians(0), radians(-90)>> >> >>,
      << <<45, <<radians(90), radians(0), radians(-45)>> >> >>,
      << >> }

-----------------------------------------------------------------------------
(* The scene *)

node1 == [name |-> <<"n", "o", "d", "e", "1">>, location |-> <<0, 0, 0>>]
node2 == [name |-> <<"n", "o", "d", "e", "2">>, location |-> <<5, 0, 0>>]

Objects == {node1, node2}

RECURSIVE SeqsUpTo(_, _)
SeqsUpTo(S, n) ==
    IF n = 0 THEN {<<>>}
    ELSE LET shorter == SeqsUpTo(S, n - 1)
         IN  shorter \cup {Append(s, x) : s \in {t \in shorter : Len(t) = n - 1}, x \in S}

\* values of the host's render output path before the first execution
BaseDirs == { <<"/", "t", "m", "p", "/">>, <<"/", "/", "o", "u", "t">>, <<>> }

HomeLocation == <<7, -7, 5>>
HomeRotation == <<radians(60), radians(0), radians(45)>>

NoRun == [status |-> "none", abortAt |-> "", calls |-> <<>>, disk |-> {},
          filepath |-> <<>>, OUTPUT_DIR |-> <<>>]

Init ==
    /\ collectionExists \in BOOLEAN
    /\ all_objects \in SeqsUpTo(Objects, MaxMarkers)
    /\ collectionExists = FALSE => all_objects = <<>>
    /\ hasCamera \in BOOLEAN
    /\ table \in Tables
    /\ Len(all_objects) * Len(table) <= MaxRenders
    /\ filepath \in BaseDirs
    /\ cam_loc = HomeLocation
    /\ cam_rot = HomeRotation
    /\ disk = {}
    /\ OUTPUT_DIR = <<>>
    /\ nodes = <<>>
    /\ i = 1
    /\ k = 1
    /\ pc = "constants"
    /\ run = 1
    /\ abortAt = ""
    /\ renders = <<>>
    /\ locWrites = 0
    /\ rotWrites = 0
    /\ pathWrites = 0
    /\ start = [filepath |-> filepath, disk |-> disk, cam_loc |-> cam_loc,
                cam_rot |-> cam_rot]
    /\ prev = NoRun

-----------------------------------------------------------------------------
(* The script, one action per statement *)

\* lines 29-33: SCENE, CAMERA and OUTPUT_DIR are bound when the module is executed
LoadConstants ==
    /\ pc = "constants"
    /\ OUTPUT_DIR' = filepath
    /\ pc' = "get_node_locations"
    /\ UNCHANGED <<scene, history, filepath, cam_loc, cam_rot, disk, nodes, i, k,
                   abortAt, renders, locWrites, rotWrites, pathWrites>>


\* a variant of the enumerator that returns the markers in reverse order
NodeLocations_Reversed(objs) ==
    [j \in 1..Len(objs) |-> [node |-> objs[Len(objs) + 1 - j].name,
                             loc  |-> objs[Len(objs) + 1 - j].location]]

\* lines 63-70: one {"node", "loc"} dictionary per object, in the host's order
NodeLocations(objs) ==
    [j \in 1..Len(objs) |-> [node |-> objs[j].name, loc |-> objs[j].location]]

\* line 100, the collection exists
GetNodeLocations ==
    /\ pc = "get_node_locations"
    /\ collectionExists
    /\ nodes' = NodeLocations(all_objects)
    /\ i' = 1
    /\ pc' = "for_d"
    /\ UNCHANGED <<scene, history, filepath, cam_loc, cam_rot, disk, OUTPUT_DIR, k,
                   abortAt, renders, locWrites, rotWrites, pathWrites>>


\* a variant of the enumerator that treats a missing collection as an empty one
GetNodeLocations_MissingIsEmpty ==
    /\ pc = "get_node_locations"
    /\ ~collectionExists
    /\ nodes' = <<>>
    /\ i' = 1
    /\ pc' = "for_d"
    /\ UNCHANGED <<scene, history, filepath, cam_loc, cam_rot, disk, OUTPUT_DIR, k,
                   abortAt, renders, locWrites, rotWrites, pathWrites>>

\* line 66: bpy.data.collections[NODE_COLLECTION] raises KeyError
GetNodeLocationsKeyError ==
    /\ pc = "get_node_locations"
    /\ ~collectionExists
    /\ pc' = "aborted"
    /\ abortAt' = "get_node_locations"
    /\ UNCHANGED <<scene, history, filepath, cam_loc, cam_rot, disk, OUTPUT_DIR,
                   nodes, i, k, renders, locWrites, rotWrites, pathWrites>>

\* lines 77-82: next marker, CAMERA.location = d.get("loc")
SetCameraLocation ==
    /\ pc = "for_d"
    /\ i <= Len(nodes)
    /\ hasCamera
    /\ cam_loc' = nodes[i].loc
    /\ locWrites' = locWrites + 1
    /\ k' = 1
    /\ pc' = "for_kv"
    /\ UNCHANGED <<scene, history, filepath, cam_rot, disk, OUTPUT_DIR, nodes, i,
                   abortAt, renders, rotWrites, pathWrites>>

\* line 82 with CAMERA = None: the attribute write raises AttributeError
SetCameraLocationNoCamera ==
    /\ pc = "for_d"
    /\ i <= Len(nodes)
    /\ ~hasCamera
    /\ pc' = "aborted"
    /\ abortAt' = "camera"
    /\ UNCHANGED <<scene, history, filepath, cam_loc, cam_rot, disk, OUTPUT_DIR,
                   nodes, i, k, renders, locWrites, rotWrites, pathWrites>>

\* line 77: the marker list is exhausted, render_node_angles returns
EndNodeLoop ==
    /\ pc = "for_d"
    /\ i > Len(nodes)
    /\ pc' = "restore"
    /\ UNCHANGED <<scene, history, filepath, cam_loc, cam_rot, disk, OUTPUT_DIR,
                   nodes, i, k, abortAt, renders, locWrites, rotWrites, pathWrites>>


\* a variant of the inner loop that sets the camera location again for every angle
SetCameraRotation_AndLocation ==
    /\ pc = "for_kv"
    /\ k <= Len(table)
    /\ cam_loc' = nodes[i].loc
    /\ locWrites' = locWrites + 1
    /\ cam_rot' = table[k][2]
    /\ rotWrites' = rotWrites + 1
    /\ pc' = "set_filepath"
    /\ UNCHANGED <<scene, history, filepath, disk, OUTPUT_DIR, nodes, i, k,
                   abortAt, renders, pathWrites>>

\* lines 84-86: next table entry, CAMERA.rotation_euler = v
SetCameraRotation ==
    /\ pc = "for_kv"
    /\ k <= Len(table)
    /\ cam_rot' = table[k][2]
    /\ rotWrites' = rotWrites + 1
    /\ pc' = "set_filepath"
    /\ UNCHANGED <<scene, history, filepath, cam_loc, disk, OUTPUT_DIR, nodes, i, k,
                   abortAt, renders, locWrites, pathWrites>>

\* line 84: the table is exhausted, back to the outer loop
EndAngleLoop ==
    /\ pc = "for_kv"
    /\ k > Len(table)
    /\ i' = i + 1
    /\ pc' = "for_d"
    /\ UNCHANGED <<scene, history, filepath, cam_loc, cam_rot, disk, OUTPUT_DIR,
                   nodes, k, abortAt, renders, locWrites, rotWrites, pathWrites>>


\* a variant that builds the path from the setting's current value
SetFilepath_FromCurrent ==
    /\ pc = "set_filepath"
    /\ filepath' = str_Path(filepath, output_file(nodes[i].node, table[k][1]))
    /\ pathWrites' = pathWrites + 1
    /\ pc' = "render"
    /\ UNCHANGED <<scene, history, cam_loc, cam_rot, disk, OUTPUT_DIR, nodes, i, k,
                   abortAt, renders, locWrites, rotWrites>>

\* lines 89-92: SCENE.render.filepath = str(Path(OUTPUT_DIR, output_file))
SetFilepath ==
    /\ pc = "set_filepath"
    /\ filepath' = str_Path(OUTPUT_DIR, output_file(nodes[i].node, table[k][1]))
    /\ pathWrites' = pathWrites + 1
    /\ pc' = "render"
    /\ UNCHANGED <<scene, history, cam_loc, cam_rot, disk, OUTPUT_DIR, nodes, i, k,
                   abortAt, renders, locWrites, rotWrites>>

\* the render call being issued, as the host sees it
RenderCall(ok) ==
    [marker |-> i, heading |-> table[k][1], path |-> filepath,
     cam_loc |-> cam_loc, cam_rot |-> cam_rot, ok |-> ok]

\* line 95: bpy.ops.render.render(write_still=True) returns, the image is on disk
RenderOk ==
    /\ pc = "render"
    /\ disk' = disk \cup {filepath}
    /\ renders' = Append(renders, RenderCall(TRUE))
    /\ k' = k + 1
    /\ pc' = "for_kv"
    /\ UNCHANGED <<scene, history, filepath, cam_loc, cam_rot, OUTPUT_DIR, nodes, i,
                   abortAt, locWrites, rotWrites, pathWrites>>


\* a variant that swallows the render failure and goes on with the next angle
RenderFail_Continue ==
    /\ pc = "render"
    /\ renders' = Append(renders, RenderCall(FALSE))
    /\ k' = k + 1
    /\ pc' = "for_kv"
    /\ abortAt' = "render"
    /\ UNCHANGED <<scene, history, filepath, cam_loc, cam_rot, disk, OUTPUT_DIR,
                   nodes, i, locWrites, rotWrites, pathWrites>>

\* a variant that restores the output path before the failure propagates
RenderFail_Restore ==
    /\ pc = "render"
    /\ renders' = Append(renders, RenderCall(FALSE))
    /\ filepath' = OUTPUT_DIR
    /\ pathWrites' = pathWrites + 1
    /\ pc' = "aborted"
    /\ abortAt' = "render"
    /\ UNCHANGED <<scene, history, cam_loc, cam_rot, disk, OUTPUT_DIR,
                   nodes, i, k, locWrites, rotWrites>>

\* line 95: the host raises, nothing catches it
RenderFail ==
    /\ pc = "render"
    /\ renders' = Append(renders, RenderCall(FALSE))
    /\ pc' = "aborted"
    /\ abortAt' = "render"
    /\ UNCHANGED <<scene, history, filepath, cam_loc, cam_rot, disk, OUTPUT_DIR,
                   nodes, i, k, locWrites, rotWrites, pathWrites>>


\* a variant that restores the path after a round trip through Path
RestoreFilepath_Normalised ==
    /\ pc = "restore"
    /\ filepath' = str_Path(OUTPUT_DIR, <<>>)
    /\ pathWrites' = pathWrites + 1
    /\ pc' = "done"
    /\ UNCHANGED <<scene, history, cam_loc, cam_rot, disk, OUTPUT_DIR, nodes, i, k,
                   abortAt, renders, locWrites, rotWrites>>

\* a variant that leaves the path of the last rendered file in the setting
RestoreFilepath_Skip ==
    /\ pc = "restore"
    /\ pc' = "done"
    /\ UNCHANGED <<scene, history, filepath, cam_loc, cam_rot, disk, OUTPUT_DIR,
                   nodes, i, k, abortAt, renders, locWrites, rotWrites, pathWrites>>

\* line 107: SCENE.render.filepath = OUTPUT_DIR
RestoreFilepath ==
    /\ pc = "restore"
    /\ filepath' = OUTPUT_DIR
    /\ pathWrites' = pathWrites + 1
    /\ pc' = "done"
    /\ UNCHANGED <<scene, history, cam_loc, cam_rot, disk, OUTPUT_DIR, nodes, i, k,
                   abortAt, renders, locWrites, rotWrites>>

\* the user runs the script again in the same session: the module is executed anew
\* (line 110) on the host state the previous execution left behind
Rerun ==
    /\ pc \in {"done", "aborted"}
    /\ run < MaxRuns
    /\ prev' = [status |-> pc, abortAt |-> abortAt, calls |-> renders,
                disk |-> disk, filepath |-> filepath, OUTPUT_DIR |-> OUTPUT_DIR]
    /\ start' = [filepath |-> filepath, disk |-> disk, cam_loc |-> cam_loc,
                 cam_rot |-> cam_rot]
    /\ run' = run + 1
    /\ OUTPUT_DIR' = <<>>
    /\ nodes' = <<>>
    /\ i' = 1
    /\ k' = 1
    /\ abortAt' = ""
    /\ renders' = <<>>
    /\ locWrites' = 0
    /\ rotWrites' = 0
    /\ pathWrites' = 0
    /\ pc' = "constants"
    /\ UNCHANGED <<scene, filepath, cam_loc, cam_rot, disk>>

Next ==
    \/ LoadConstants
    \/ GetNodeLocations
    \/ GetNodeLocationsKeyError
    \/ SetCameraLocation
    \/ SetCameraLocationNoCamera
    \/ EndNodeLoop
    \/ SetCameraRotation
    \/ EndAngleLoop
    \/ SetFilepath
    \/ RenderOk
    \/ RenderFail
    \/ RestoreFilepath
    \/ Rerun

Spec == Init /\ [][Next]_vars

-----------------------------------------------------------------------------
(* Vocabulary of the properties *)

\* the execution got through every statement of run()
Completed == pc = "done"

\* render_node_angles returned: every render call of the execution succeeded
DriverReturned == pc \in {"restore", "done"}

\* the paths of the files a sequence of render calls wrote
Written(calls) == {calls[j].path : j \in {n \in 1..Len(calls) : calls[n].ok}}

Last(seq) == seq[Len(seq)]

\* the decimal numerals of the headings in use, written out
Numeral(h) ==
    CASE h = 0   -> <<"0">>
      [] h = 45  -> <<"4", "5">>
      [] h = 90  -> <<"9", "0">>
      [] h = 135 -> <<"1", "3", "5">>
      [] h = 180 -> <<"1", "8", "0">>
      [] h = 225 -> <<"2", "2", "5">>
      [] h = 270 -> <<"2", "7", "0">>
      [] h = 315 -> <<"3", "1", "5">>

\* "{name}__angle_{h}.png", written out
ExpectedFileName(name, h) ==
    name \o <<"_", "_", "a", "n", "g", "l", "e", "_">> \o Numeral(h)
         \o <<".", "p", "n", "g">>

\* text p starts with text q
StartsWith(p, q) == Len(q) <= Len(p) /\ SubSeq(p, 1, Len(q)) = q

\* path p lies under path q: q followed by a separator is a proper prefix of p
Under(p, q) == Len(p) > Len(q) + 1 /\ StartsWith(p, q \o <<"/">>)

\* the angle r, in radians, is d degrees: r * 180 / pi = d
InDegrees(r, d) == r.num * 180 = d * r.den

\* the 1-based position of the pair (marker m, table entry h) in marker-major order
PairIndex(m, h) == (m - 1) * Len(table) + h

-----------------------------------------------------------------------------
(* C1 *)

\* C1: after run() completes without failure the output-path setting equals the
\* base directory captured at startup, the value the setting had before the
\* first render call, and is not the path of the last rendered file; whatever
\* the number of markers and the size of the angle table.
C1_RestoredToBase ==
    Completed =>
        /\ filepath = OUTPUT_DIR
        /\ filepath = start.filepath
        /\ renders # <<>> => filepath # Last(renders).path

C1_Witness ==
    /\ Completed
    /\ Len(renders) >= 2
    /\ start.filepath = <<"/", "t", "m", "p", "/">>

-----------------------------------------------------------------------------
(* C2 *)

\* C2: in a fully successful run there is exactly one render call for every
\* (marker, heading) pair and no other, |markers| * |table| calls in all, and the
\* file written for (m, h) is the base directory joined with
\* "{m.name}__angle_{h}.png", which is then on disk.
C2_OneFilePerPair ==
    DriverReturned =>
        /\ Len(renders) = Len(all_objects) * Len(table)
        /\ \A m \in 1..Len(all_objects), h \in 1..Len(table) :
              LET calls == {j \in 1..Len(renders) :
                               /\ renders[j].marker = m
                               /\ renders[j].heading = table[h][1]}
              IN  /\ Cardinality(calls) = 1
                  /\ \A j \in calls :
                        /\ renders[j].ok
                        /\ renders[j].path =
                              str_Path(start.filepath,
                                       ExpectedFileName(all_objects[m].name, table[h][1]))
                        /\ renders[j].path \in disk

C2_Witness ==
    /\ Completed
    /\ table = ROTATION_ANGLES
    /\ Len(all_objects) = 1
    /\ Len(renders) = 8

-----------------------------------------------------------------------------
(* C3 *)

\* C3: without the collection FPV_nodes the run aborts inside the marker
\* enumerator: no render call, no file written, and no write to the camera's
\* location or rotation or to the output-path setting.
C3_MissingCollectionAborts ==
    (~collectionExists) =>
        /\ pc \in {"constants", "get_node_locations", "aborted"}
        /\ pc = "aborted" => abortAt = "get_node_locations"
        /\ renders = <<>>
        /\ disk = start.disk
        /\ locWrites = 0 /\ rotWrites = 0 /\ pathWrites = 0
        /\ cam_loc = start.cam_loc
        /\ cam_rot = start.cam_rot
        /\ filepath = start.filepath

C3_Witness ==
    /\ ~collectionExists
    /\ pc = "aborted"
    /\ abortAt = "get_node_locations"

-----------------------------------------------------------------------------
(* C4 *)

\* the path the last successful render iteration of this execution set, the
\* setting's value at startup when no iteration succeeded
LastSuccessfulPath ==
    LET good == {j \in 1..Len(renders) : renders[j].ok}
    IN  IF good = {} THEN start.filepath
        ELSE renders[CHOOSE j \in good : \A n \in good : n <= j].path

\* C4 as stated: when a render call fails the run terminates at once, the images
\* already rendered stay on disk, and the output-path setting is what the last
\* successful render iteration set it to.
C4_Original ==
    abortAt = "render" =>
        /\ pc = "aborted"
        /\ Written(renders) \subseteq disk
        /\ filepath = LastSuccessfulPath

\* C4 amended: when a render call fails the run terminates at once (the failed
\* call is the last one, the restoring write is not executed), the images
\* already rendered stay on disk, and the output-path setting is the path the
\* failing iteration set just before its render call.
C4_FailedRenderAborts ==
    /\ \A j \in 1..Len(renders) :
          ~renders[j].ok => /\ j = Len(renders)
                            /\ pc = "aborted"
                            /\ abortAt = "render"
    /\ abortAt = "render" =>
          /\ pc = "aborted"
          /\ renders # <<>>
          /\ ~Last(renders).ok
          /\ Last(renders).marker = i
          /\ Last(renders).heading = table[k][1]
          /\ Len(renders) = PairIndex(i, k)
          /\ pathWrites = Len(renders)
          /\ Written(renders) \subseteq disk
          /\ Cardinality(disk \ start.disk) <= Len(renders) - 1
          /\ filepath = Last(renders).path
          /\ filepath = str_Path(OUTPUT_DIR, output_file(nodes[i].node, table[k][1]))

C4_Witness ==
    /\ abortAt = "render"
    /\ pc = "aborted"
    /\ Len(renders) = 3
    /\ filepath # LastSuccessfulPath

-----------------------------------------------------------------------------
(* C5 *)

\* C5: the camera's position is written once per marker, before the marker's
\* first render and not again during its angle loop, and the camera's rotation
\* once per rendered file: a fully successful run makes |markers| position
\* writes, also with an empty angle table, and |markers| * |table| rotation
\* writes.
C5_CameraWrites ==
    /\ pc = "for_d" => /\ locWrites = i - 1
                       /\ rotWrites = (i - 1) * Len(table)
    /\ pc = "for_kv" => /\ locWrites = i
                        /\ rotWrites = PairIndex(i, k) - 1
    /\ pc \in {"set_filepath", "render"} => /\ locWrites = i
                                            /\ rotWrites = PairIndex(i, k)
                                            /\ rotWrites = Len(renders) + 1
    /\ DriverReturned => /\ locWrites = Len(all_objects)
                         /\ rotWrites = Len(all_objects) * Len(table)
                         /\ rotWrites = Len(renders)

C5_Witness ==
    /\ Completed
    /\ Len(all_objects) = 2
    /\ Len(table) = 2
    /\ locWrites = 2
    /\ rotWrites = 4

-----------------------------------------------------------------------------
(* C6 *)

\* C6: a second fully successful run on the unchanged scene and table, right
\* after a fully successful run, issues the same render calls for the same
\* paths, although every one of these files already exists, and leaves the
\* same set of files on disk.
C6_RerunOverwrites ==
    (Completed /\ prev.status = "done") =>
        /\ Len(renders) = Len(prev.calls)
        /\ \A j \in 1..Len(renders) : /\ renders[j].path = prev.calls[j].path
                                      /\ renders[j].path \in start.disk
                                      /\ renders[j].ok
        /\ Written(renders) = Written(prev.calls)
        /\ disk = prev.disk

C6_Witness ==
    /\ Completed
    /\ prev.status = "done"
    /\ Cardinality(Written(renders)) >= 4

-----------------------------------------------------------------------------
(* C7 *)

\* C7: every entry (h, [pitch, roll, yaw]) of ROTATION_ANGLES, h one of 0, 45,
\* ..., 315, has in degrees pitch 90, roll 0 and yaw -h; so has every rotation
\* the camera is rendered with under that table.
C7_AngleTable ==
    /\ [n \in 1..Len(ROTATION_ANGLES) |-> ROTATION_ANGLES[n][1]]
          = <<0, 45, 90, 135, 180, 225, 270, 315>>
    /\ \A n \in 1..Len(ROTATION_ANGLES) :
          /\ InDegrees(ROTATION_ANGLES[n][2][1], 90)
          /\ InDegrees(ROTATION_ANGLES[n][2][2], 0)
          /\ InDegrees(ROTATION_ANGLES[n][2][3], -ROTATION_ANGLES[n][1])
    /\ table = ROTATION_ANGLES =>
          \A j \in 1..Len(renders) :
              /\ InDegrees(renders[j].cam_rot[1], 90)
              /\ InDegrees(renders[j].cam_rot[2], 0)
              /\ InDegrees(renders[j].cam_rot[3], -renders[j].heading)

C7_Witness ==
    /\ table = ROTATION_ANGLES
    /\ Len(renders) = 8
    /\ renders[8].heading = 315
    /\ renders[8].cam_rot[3] = [num |-> -7, den |-> 4]

-----------------------------------------------------------------------------
(* C8 *)

\* C8: render calls are issued marker-major: markers in the order the host
\* enumerates the collection, neither sorted nor deduplicated, and for each
\* marker all headings in table order before the next marker.
C8_MarkerMajorOrder ==
    /\ pc \notin {"constants", "get_node_locations"} /\ abortAt # "get_node_locations"
          => /\ Len(nodes) = Len(all_objects)
             /\ \A m \in 1..Len(nodes) : /\ nodes[m].node = all_objects[m].name
                                         /\ nodes[m].loc = all_objects[m].location
    /\ \A j \in 1..Len(renders) :
          LET m == ((j - 1) \div Len(table)) + 1
              h == ((j - 1) % Len(table)) + 1
          IN  /\ renders[j].marker = m
              /\ renders[j].heading = table[h][1]
              /\ renders[j].cam_loc = all_objects[m].location
              /\ renders[j].path =
                    str_Path(OUTPUT_DIR, ExpectedFileName(all_objects[m].name, table[h][1]))

C8_Witness ==
    /\ Completed
    /\ all_objects = <<node2, node1>>
    /\ Len(table) = 2
    /\ [j \in 1..Len(renders) |-> <<renders[j].marker, renders[j].heading>>]
          = << <<1, 0>>, <<1, 90>>, <<2, 0>>, <<2, 90>> >>
    /\ renders[1].path = str_Path(OUTPUT_DIR, ExpectedFileName(node2.name, 0))

-----------------------------------------------------------------------------
(* C9 *)

\* C9: at every render call for a pair (m, h) the camera is at m's recorded
\* position with the table's rotation for h, and the output-path setting is the
\* base captured at startup joined with the file name for (m, h); the path is
\* never built from the setting's current value, so no file is written under
\* the path of a file rendered earlier in the run.
C9_StateAtRender ==
    pc = "render" =>
        /\ cam_loc = nodes[i].loc
        /\ cam_loc = all_objects[i].location
        /\ cam_rot = table[k][2]
        /\ OUTPUT_DIR = start.filepath
        /\ filepath = str_Path(start.filepath,
                               ExpectedFileName(all_objects[i].name, table[k][1]))
        /\ \A j \in 1..Len(renders) : ~Under(filepath, renders[j].path)

C9_Witness ==
    /\ pc = "render"
    /\ Len(renders) >= 3
    /\ i = 2

-----------------------------------------------------------------------------
(* C10 *)

\* C10: a run started after a run that aborted in a render call captures as its
\* base the file path the aborted run left in the setting, not the base that
\* run worked with; each of its files is written under that file path, and if
\* it succeeds the setting is restored to that file path.
C10_BaseAfterAbort ==
    (prev.status = "aborted" /\ prev.abortAt = "render" /\ pc # "constants") =>
        /\ OUTPUT_DIR = prev.filepath
        /\ OUTPUT_DIR = Last(prev.calls).path
        /\ OUTPUT_DIR # prev.OUTPUT_DIR
        /\ \A j \in 1..Len(renders) : Under(renders[j].path, OUTPUT_DIR)
        /\ Completed => /\ filepath = prev.filepath
                        /\ filepath # prev.OUTPUT_DIR

C10_Witness ==
    /\ prev.status = "aborted"
    /\ prev.abortAt = "render"
    /\ Completed
    /\ Len(renders) >= 2

=============================================================================
